---- MODULE Spec2Model ----
(***************************************************************************)
(* A model of src/graph/mod.rs: the union-find structure DisjointSets, the  *)
(* compact adjacency-list Graph, its adjacency iterator, and the Euler path *)
(* and Kruskal minimum spanning tree algorithms built on them.              *)
(*                                                                          *)
(* A Rust Vec is a TLA+ sequence; the Rust index i is the TLA+ index i+1    *)
(* (operator At).  Option<usize> is a sequence of length 0 (None) or 1      *)
(* (Some).  A failed index check is the value Panic, a failed assert_eq!    *)
(* the value AssertFailed; either ends the run.                             *)
(***************************************************************************)
EXTENDS Integers, Sequences, FiniteSets, TLC

VARIABLES
    parent,     \* DisjointSets.parent
    dsCall,     \* the last DisjointSets call: its name, arguments, result, and parent before it
    rel,        \* the pairs passed to merge so far, closed to an equivalence: rel[x] is the least element related to x
    first,      \* Graph.first
    next,       \* Graph.next
    endp,       \* Graph.endp
    log,        \* per edge index, the add_edge call that appended it and the method that made the call
    gCall,      \* the last Graph call: its name, arguments, result, and the graph before it
    iters       \* the AdjListIterator values the caller holds

dsVars == <<parent, dsCall, rel>>
graphVars == <<first, next, endp, log, gCall, iters>>
vars == <<parent, dsCall, rel, first, next, endp, log, gCall, iters>>

\* ---------------------------------------------------------------- bounds
MaxSize == 4        \* largest size given to DisjointSets::new
GraphMaxV == 2      \* largest vmax given to Graph::new (graph construction)
GraphMaxE == 4      \* most edges added (graph construction)
AdjMaxV == 2        \* largest vmax given to Graph::new (adjacency iteration)
AdjMaxE == 2        \* most edges added (adjacency iteration)
EulerMaxV == 3      \* largest vmax given to Graph::new (Euler path)
EulerMaxE == 3      \* most edges added (Euler path)
MstMaxV == 3        \* largest vmax given to Graph::new (minimum spanning tree)
MstMaxK == 2        \* most undirected edges added, and longest weights slice
MstMaxW == 2        \* largest weight
AnyMaxV == 2        \* largest vmax given to Graph::new (min_spanning_tree on any graph)
AnyMaxE == 3        \* most edges added (min_spanning_tree on any graph)

\* ---------------------------------------------------------------- Vec helpers
Panic == "panic"

\* a failed assert_eq!
AssertFailed == "assertion failed"

\* vec[i], for an index that is in range
At(vec, i) == vec[i + 1]

\* the index check of vec[i]
InRange(vec, i) == i >= 0 /\ i < Len(vec)

\* vec[i] = x
SetAt(vec, i, x) == [vec EXCEPT ![i + 1] = x]

\* (0..size).collect()
Range0(size) == [i \in 1..size |-> i - 1]

\* ---------------------------------------------------------------- Graph
\* Option<usize>
None == <<>>
Some(e) == <<e>>
IsSome(o) == o # None
Unwrap(o) == o[1]

\* u ^ 1 on usize: the lowest bit flipped
Xor1(u) == IF u % 2 = 0 THEN u + 1 ELSE u - 1

\* the three arrays of a Graph as one value
GraphOf(f, n, e) == [first |-> f, next |-> n, endp |-> e]
Graph == GraphOf(first, next, endp)

\* Graph::new(vmax, emax): emax only reserves capacity
GraphNew(vmax) == GraphOf([i \in 1..vmax |-> None], <<>>, <<>>)

\* Graph::num_v, Graph::num_e
NumV(g) == Len(g.first)
NumE(g) == Len(g.next)

\* The result of a call that changes the graph: the graph after it and
\* whether it completed (ok = FALSE: it panicked).
GResult(g, ok) == [g |-> g, ok |-> ok]

\* add_edge that pushes the destination before it reads first[u]
AddEdgePushFirst(g, u, v) ==
    IF ~InRange(g.first, u) THEN GResult(GraphOf(g.first, g.next, Append(g.endp, v)), FALSE)
    ELSE GResult(GraphOf(SetAt(g.first, u, Some(Len(g.endp))),
                         Append(g.next, At(g.first, u)),
                         Append(g.endp, v)), TRUE)

\* add_edge that leaves first[u] alone
AddEdgeNoFirst(g, u, v) ==
    IF ~InRange(g.first, u) THEN GResult(g, FALSE)
    ELSE GResult(GraphOf(g.first, Append(g.next, At(g.first, u)), Append(g.endp, v)), TRUE)

\* Graph::add_edge(u, v).  self.first[u] is evaluated, and panics for u out
\* of range, before anything is pushed; v is not checked.
AddEdge(g, u, v) ==
    IF ~InRange(g.first, u) THEN GResult(g, FALSE)
    ELSE GResult(GraphOf(SetAt(g.first, u, Some(Len(g.endp))),
                         Append(g.next, At(g.first, u)),
                         Append(g.endp, v)), TRUE)

\* add_undirected_edge that adds u -> v twice
AddUndirectedEdgeSame(g, u, v) ==
    LET r == AddEdge(g, u, v)
    IN  IF ~r.ok THEN r ELSE AddEdge(r.g, u, v)

\* Graph::add_undirected_edge(u, v)
AddUndirectedEdge(g, u, v) ==
    LET r == AddEdge(g, u, v)
    IN  IF ~r.ok THEN r ELSE AddEdge(r.g, v, u)

\* add_two_sat_clause with the two edges in the other order
AddTwoSatClauseSwapped(g, u, v) ==
    LET r == AddEdge(g, Xor1(v), u)
    IN  IF ~r.ok THEN r ELSE AddEdge(r.g, Xor1(u), v)

\* Graph::add_two_sat_clause(u, v)
AddTwoSatClause(g, u, v) ==
    LET r == AddEdge(g, Xor1(u), v)
    IN  IF ~r.ok THEN r ELSE AddEdge(r.g, Xor1(v), u)

\* The add_edge calls a method makes, in order: <<source, destination>>
EdgeCalls(op, u, v) ==
    CASE op = "add_edge" -> << <<u, v>> >>
      [] op = "add_undirected_edge" -> << <<u, v>>, <<v, u>> >>
      [] op = "add_two_sat_clause" -> << <<Xor1(u), v>>, <<Xor1(v), u>> >>

\* The log entries of the edges a call appended: entry k of the call is its
\* k-th add_edge, made by method op when the graph had base edges.
LogEntries(op, u, v, base, appended) ==
    [k \in 1..appended |->
        [u |-> EdgeCalls(op, u, v)[k][1], v |-> EdgeCalls(op, u, v)[k][2],
         by |-> op, base |-> base]]

GRecord(op, u, v, w, ret, ok, work) ==
    [op |-> op, u |-> u, v |-> v, w |-> w, ret |-> ret, ok |-> ok, work |-> work,
     pre |-> Graph]

NoIters == [s \in {"a", "b"} |-> None]

\* A call of one of the three methods that add edges.  The graph is borrowed
\* mutably, so the caller holds no iterator; a panic ends the run.
AddCall(op, r, u, v) ==
    /\ gCall.ok
    /\ iters = NoIters
    /\ first' = r.g.first
    /\ next' = r.g.next
    /\ endp' = r.g.endp
    /\ log' = log \o LogEntries(op, u, v, Len(endp), Len(r.g.endp) - Len(endp))
    /\ gCall' = GRecord(op, u, v, <<>>, <<>>, r.ok, <<>>)
    /\ UNCHANGED <<iters, dsVars>>

GAddEdge(u, v) == AddCall("add_edge", AddEdge(Graph, u, v), u, v)
GAddUndirectedEdge(u, v) == AddCall("add_undirected_edge", AddUndirectedEdge(Graph, u, v), u, v)
GAddTwoSatClause(u, v) == AddCall("add_two_sat_clause", AddTwoSatClause(Graph, u, v), u, v)

\* no DisjointSets has been made
NoDS ==
    /\ parent = <<>>
    /\ rel = <<>>
    /\ dsCall = [op |-> "none", u |-> 0, v |-> 0, ret |-> 0, ok |-> TRUE, pre |-> <<>>]

\* no Graph has been made
NoGraph ==
    /\ first = <<>> /\ next = <<>> /\ endp = <<>> /\ log = <<>>
    /\ gCall = [op |-> "none", u |-> 0, v |-> 0, w |-> <<>>, ret |-> <<>>,
                ok |-> TRUE, work |-> <<>>, pre |-> GraphOf(<<>>, <<>>, <<>>)]
    /\ iters = NoIters

\* the state after Graph::new(vmax, emax)
GraphInit(vmax) ==
    /\ first = GraphNew(vmax).first
    /\ next = GraphNew(vmax).next
    /\ endp = GraphNew(vmax).endp
    /\ log = <<>>
    /\ gCall = [op |-> "new", u |-> vmax, v |-> 0, w |-> <<>>, ret |-> <<>>,
                ok |-> TRUE, work |-> <<>>, pre |-> GraphOf(<<>>, <<>>, <<>>)]
    /\ iters = NoIters
    /\ NoDS

\* The vertex arguments a caller may pass: every vertex and the first index
\* out of range.
VertexArgs == 0..Len(first)

InitGraph == \E vmax \in 0..GraphMaxV : GraphInit(vmax)

NextGraph ==
    \/ \E u \in VertexArgs, v \in VertexArgs :
          Len(endp) + 1 <= GraphMaxE /\ GAddEdge(u, v)
    \/ \E u \in VertexArgs, v \in VertexArgs :
          Len(endp) + 2 <= GraphMaxE /\ GAddUndirectedEdge(u, v)
    \/ \E u \in VertexArgs, v \in VertexArgs :
          Len(endp) + 2 <= GraphMaxE /\ GAddTwoSatClause(u, v)

SpecGraph == InitGraph /\ [][NextGraph]_vars

\* ---------------------------------------------------------------- AdjListIterator
\* The vertices of the graph
Vertices == 0..(Len(first) - 1)

\* AdjListIterator { graph, next_e }: graph is the borrowed Graph, passed to
\* the operators below
IterOf(o) == [next_e |-> o]

\* Graph::adj_list(u): the iterator, or a panic for u out of range
AdjList(g, u) ==
    IF ~InRange(g.first, u) THEN [it |-> IterOf(None), ok |-> FALSE]
    ELSE [it |-> IterOf(At(g.first, u)), ok |-> TRUE]

\* AdjListIterator::next: the iterator after the call and the item returned,
\* None or Some(<<e, v>>)
IterNext(g, it) ==
    IF IsSome(it.next_e)
    THEN LET e == Unwrap(it.next_e)
             v == At(g.endp, e)
         IN  [it |-> IterOf(At(g.next, e)), item |-> Some(<<e, v>>)]
    ELSE [it |-> it, item |-> None]

\* The items a loop over the iterator receives: next() until it returns None
RECURSIVE Drain(_, _)
Drain(g, it) ==
    LET n == IterNext(g, it)
    IN  IF IsSome(n.item) THEN <<Unwrap(n.item)>> \o Drain(g, n.it) ELSE <<>>

\* An iterator the caller holds: the iterator, the vertex it was made for,
\* the items it has returned, and whether it has returned None.
Held(it, u, out, done) == [it |-> it, u |-> u, out |-> out, done |-> done]

\* let s = graph.adj_list(u); a panic ends the run
GAdjList(s, u) ==
    /\ gCall.ok
    /\ LET r == AdjList(Graph, u)
       IN  IF r.ok
           THEN /\ iters' = [iters EXCEPT ![s] = Some(Held(r.it, u, <<>>, FALSE))]
                /\ UNCHANGED gCall
           ELSE /\ gCall' = GRecord("adj_list", u, u, <<>>, <<>>, FALSE, <<>>)
                /\ UNCHANGED iters
    /\ UNCHANGED <<first, next, endp, log, dsVars>>

\* s.next()
GIterNext(s) ==
    /\ gCall.ok
    /\ IsSome(iters[s])
    /\ LET h == Unwrap(iters[s])
           n == IterNext(Graph, h.it)
       IN  iters' = [iters EXCEPT ![s] =
                        Some(Held(n.it, h.u,
                                  IF IsSome(n.item) THEN Append(h.out, Unwrap(n.item)) ELSE h.out,
                                  ~IsSome(n.item)))]
    /\ UNCHANGED <<first, next, endp, log, gCall, dsVars>>

\* the iterators go out of scope, ending their borrow of the graph
GDropIters ==
    /\ gCall.ok
    /\ iters # NoIters
    /\ iters' = NoIters
    /\ UNCHANGED <<first, next, endp, log, gCall, dsVars>>

InitAdj == \E vmax \in 0..AdjMaxV : GraphInit(vmax)

NextAdj ==
    \/ \E u \in Vertices, v \in Vertices :
          Len(endp) + 1 <= AdjMaxE /\ GAddEdge(u, v)
    \/ \E u \in Vertices, v \in Vertices :
          Len(endp) + 2 <= AdjMaxE /\ GAddUndirectedEdge(u, v)
    \/ \E u \in Vertices, v \in Vertices :
          Len(endp) + 2 <= AdjMaxE /\ GAddTwoSatClause(u, v)
    \/ \E s \in DOMAIN iters, u \in VertexArgs : GAdjList(s, u)
    \/ \E s \in DOMAIN iters : GIterNext(s)
    \/ GDropIters

SpecAdj == InitAdj /\ [][NextAdj]_vars

\* ---------------------------------------------------------------- Euler path
\* edges.reverse()
Reverse(seq) == [i \in 1..Len(seq) |-> seq[Len(seq) + 1 - i]]

\* The outcome of euler_recurse: the iterator array and the edge list after
\* it, and whether it completed (adj[u] panics for u out of range).
ERResult(adj, edges, ok) == [adj |-> adj, edges |-> edges, ok |-> ok]

RECURSIVE EulerRecurse(_, _, _, _)

\* euler_recurse whose loop goes on with the iterators it had before the
\* recursive call, as with a copy of the iterator array per call
EulerRecurseCopiedIters(g, u, adj, edges) ==
    IF ~InRange(adj, u) THEN ERResult(adj, edges, FALSE)
    ELSE LET n == IterNext(g, At(adj, u))
         IN  IF ~IsSome(n.item) THEN ERResult(adj, edges, TRUE)
             ELSE LET e == Unwrap(n.item)[1]
                      v == Unwrap(n.item)[2]
                      r == EulerRecurse(g, v, SetAt(adj, u, n.it), edges)
                  IN  IF ~r.ok THEN r
                      ELSE EulerRecurse(g, u, SetAt(adj, u, n.it), Append(r.edges, e))

\* euler_recurse that pushes the edge before descending through it
EulerRecursePreOrder(g, u, adj, edges) ==
    IF ~InRange(adj, u) THEN ERResult(adj, edges, FALSE)
    ELSE LET n == IterNext(g, At(adj, u))
         IN  IF ~IsSome(n.item) THEN ERResult(adj, edges, TRUE)
             ELSE LET e == Unwrap(n.item)[1]
                      v == Unwrap(n.item)[2]
                      r == EulerRecurse(g, v, SetAt(adj, u, n.it), Append(edges, e))
                  IN  IF ~r.ok THEN r
                      ELSE EulerRecurse(g, u, r.adj, r.edges)

\* Graph::euler_recurse(u, adj, edges): one turn of the while loop, then the
\* rest of the loop on the state the turn left.
EulerRecurse(g, u, adj, edges) ==
    IF ~InRange(adj, u) THEN ERResult(adj, edges, FALSE)
    ELSE LET n == IterNext(g, At(adj, u))
         IN  IF ~IsSome(n.item) THEN ERResult(adj, edges, TRUE)
             ELSE LET e == Unwrap(n.item)[1]
                      v == Unwrap(n.item)[2]
                      r == EulerRecurse(g, v, SetAt(adj, u, n.it), edges)
                  IN  IF ~r.ok THEN r
                      ELSE EulerRecurse(g, u, r.adj, Append(r.edges, e))

\* The outcome of a query: the value returned, whether it completed, and the
\* sorts and merges it performed, in order
QResult(ret, ok, work) == [ret |-> ret, ok |-> ok, work |-> work]

\* Graph::euler_path(u)
EulerPath(g, u) ==
    LET adj_iters == [x \in 1..NumV(g) |-> AdjList(g, x - 1).it]
        r == EulerRecurse(g, u, adj_iters, <<>>)
    IN  IF r.ok THEN QResult(Reverse(r.edges), TRUE, <<>>) ELSE QResult(Panic, FALSE, <<>>)

\* A call of a query on &self: nothing of the graph changes; a panic ends
\* the run.
QueryCall(op, u, w, r) ==
    /\ gCall.ok
    /\ LET res == r
       IN  gCall' = GRecord(op, u, u, w, res.ret, res.ok, res.work)
    /\ UNCHANGED <<first, next, endp, log, iters, dsVars>>

GEulerPath(u) == QueryCall("euler_path", u, <<>>, EulerPath(Graph, u))

InitEuler == \E vmax \in 0..EulerMaxV : GraphInit(vmax)

NextEuler ==
    \/ \E u \in Vertices, v \in Vertices :
          Len(endp) + 1 <= EulerMaxE /\ GAddEdge(u, v)
    \/ \E u \in Vertices : GEulerPath(u)

SpecEuler == InitEuler /\ [][NextEuler]_vars

\* ---------------------------------------------------------------- DisjointSets
\* DisjointSets::new(size)
DSNew(size) == Range0(size)

\* The result of a DisjointSets call: the parent array after it, the value
\* returned, and whether it completed (ok = FALSE: it panicked).
DSResult(p, ret, ok) == [parent |-> p, ret |-> ret, ok |-> ok]

RECURSIVE Find(_, _)

\* find without the recursive call: returns u's parent, not the root
FindOneHop(p, u) ==
    IF ~InRange(p, u) THEN DSResult(p, Panic, FALSE)
    ELSE DSResult(p, At(p, u), TRUE)

\* find that returns the root and writes nothing
FindNoCompress(p, u) ==
    IF ~InRange(p, u) THEN DSResult(p, Panic, FALSE)
    ELSE LET pu == At(p, u)
         IN  IF pu # u THEN Find(p, pu) ELSE DSResult(p, At(p, u), TRUE)

\* find that writes parent[root] = u instead of parent[u] = root
FindSwapped(p, u) ==
    IF ~InRange(p, u) THEN DSResult(p, Panic, FALSE)
    ELSE LET pu == At(p, u)
         IN  IF pu # u
             THEN LET r == Find(p, pu)
                  IN  IF ~r.ok THEN r
                      ELSE DSResult(SetAt(r.parent, r.ret, u), r.ret, TRUE)
             ELSE DSResult(p, At(p, u), TRUE)

\* DisjointSets::find(u) on the parent array p.  parent[u] with u out of range
\* panics before anything is written.
Find(p, u) ==
    IF ~InRange(p, u) THEN DSResult(p, Panic, FALSE)
    ELSE LET pu == At(p, u)
         IN  IF pu # u
             THEN LET r == Find(p, pu)
                  IN  IF ~r.ok THEN r
                      ELSE LET p2 == SetAt(r.parent, u, r.ret)
                           IN  DSResult(p2, At(p2, u), TRUE)
             ELSE DSResult(p, At(p, u), TRUE)

\* merge that compares the arguments instead of their roots
MergeCompareArgs(p, u, v) ==
    LET fu == Find(p, u)
    IN  IF ~fu.ok THEN fu
        ELSE LET fv == Find(fu.parent, v)
             IN  IF ~fv.ok THEN fv
                 ELSE DSResult(SetAt(fv.parent, fu.ret, fv.ret), u # v, TRUE)

\* merge that re-parents u to v without finding their roots
MergeNoFind(p, u, v) ==
    IF ~InRange(p, u) \/ ~InRange(p, v) THEN DSResult(p, Panic, FALSE)
    ELSE DSResult(SetAt(p, u, v), u # v, TRUE)

\* merge that attaches v's root under u's root
MergeReversed(p, u, v) ==
    LET fu == Find(p, u)
    IN  IF ~fu.ok THEN fu
        ELSE LET fv == Find(fu.parent, v)
             IN  IF ~fv.ok THEN fv
                 ELSE DSResult(SetAt(fv.parent, fv.ret, fu.ret), fu.ret # fv.ret, TRUE)

\* merge that re-parents u itself instead of u's root
MergeLinkArg(p, u, v) ==
    LET fu == Find(p, u)
    IN  IF ~fu.ok THEN fu
        ELSE LET fv == Find(fu.parent, v)
             IN  IF ~fv.ok THEN fv
                 ELSE DSResult(SetAt(fv.parent, u, fv.ret), fu.ret # fv.ret, TRUE)

\* DisjointSets::merge(u, v) on the parent array p: find(u), then find(v) on
\* the array find(u) left, then parent[pu] = pv.
Merge(p, u, v) ==
    LET fu == Find(p, u)
    IN  IF ~fu.ok THEN fu
        ELSE LET fv == Find(fu.parent, v)
             IN  IF ~fv.ok THEN fv
                 ELSE LET pu == fu.ret
                          pv == fv.ret
                      IN  DSResult(SetAt(fv.parent, pu, pv), pu # pv, TRUE)

\* The arguments a caller may pass for an element: every index in range and
\* the first one out of range.
ElemArgs == 0..Len(parent)

\* The equivalence r with the pair (u, v) added and closed again: the
\* classes of u and v become one, named by its least element.
Relate(r, u, v) ==
    LET least == IF At(r, u) < At(r, v) THEN At(r, u) ELSE At(r, v)
    IN  [i \in 1..Len(r) |-> IF r[i] \in {At(r, u), At(r, v)} THEN least ELSE r[i]]

DSRecord(op, u, v, r) ==
    [op |-> op, u |-> u, v |-> v, ret |-> r.ret, ok |-> r.ok, pre |-> parent]

\* a call of find(u); a panic ends the run
DSFind(u) ==
    /\ dsCall.ok
    /\ LET r == Find(parent, u)
       IN  /\ parent' = r.parent
           /\ dsCall' = DSRecord("find", u, u, r)
    /\ rel' = rel
    /\ UNCHANGED graphVars

\* a call of merge(u, v); a panic ends the run
DSMerge(u, v) ==
    /\ dsCall.ok
    /\ LET r == Merge(parent, u, v)
       IN  /\ parent' = r.parent
           /\ dsCall' = DSRecord("merge", u, v, r)
           /\ rel' = IF r.ok THEN Relate(rel, u, v) ELSE rel
    /\ UNCHANGED graphVars

\* the state after DisjointSets::new(size); no Graph has been made
InitDS ==
    /\ \E size \in 0..MaxSize :
          /\ parent = DSNew(size)
          /\ rel = Range0(size)
          /\ dsCall = [op |-> "new", u |-> size, v |-> size, ret |-> size,
                       ok |-> TRUE, pre |-> <<>>]
    /\ NoGraph

NextDS ==
    \/ \E u \in ElemArgs : DSFind(u)
    \/ \E u \in ElemArgs, v \in ElemArgs : DSMerge(u, v)

SpecDS == InitDS /\ [][NextDS]_vars

\* a program that has made one of the two structures: a DisjointSets, on
\* which it calls find and merge, or a Graph, on which it calls add_edge
InitLib == InitDS \/ InitGraph

NextLib ==
    \/ \E u \in ElemArgs : dsCall.op # "none" /\ DSFind(u)
    \/ \E u \in ElemArgs, v \in ElemArgs : dsCall.op # "none" /\ DSMerge(u, v)
    \/ \E u \in VertexArgs, v \in VertexArgs :
          gCall.op # "none" /\ Len(endp) + 1 <= GraphMaxE /\ GAddEdge(u, v)

SpecLib == InitLib /\ [][NextLib]_vars

\* ---------------------------------------------------------------- Minimum spanning tree
\* a placement before the elements of equal key: equal keys end up in
\* descending index order
RECURSIVE InsertBeforeEqual(_, _, _)
InsertBeforeEqual(seq, e, key) ==
    IF seq = <<>> THEN <<e>>
    ELSE IF key[e + 1] <= key[Head(seq) + 1] THEN <<e>> \o seq
    ELSE <<Head(seq)>> \o InsertBeforeEqual(Tail(seq), e, key)

\* The place edges.sort_by_key puts e in an already sorted seq: after every
\* element whose key is not greater (the sort is stable).
RECURSIVE InsertByKey(_, _, _)
InsertByKey(seq, e, key) ==
    IF seq = <<>> THEN <<e>>
    ELSE IF key[e + 1] < key[Head(seq) + 1] THEN <<e>> \o seq
    ELSE <<Head(seq)>> \o InsertByKey(Tail(seq), e, key)

\* a sort into descending order of key
RECURSIVE SortDescending(_, _)
SortDescending(seq, key) ==
    IF seq = <<>> THEN <<>>
    ELSE LET rest == SortDescending(SubSeq(seq, 1, Len(seq) - 1), key)
             e == seq[Len(seq)]
             NotLess(i) == key[rest[i] + 1] >= key[e + 1]
             n == Cardinality({i \in 1..Len(rest) : NotLess(i)})
         IN  SubSeq(rest, 1, n) \o <<e>> \o SubSeq(rest, n + 1, Len(rest))

\* edges.sort_by_key(|&e| key[e]): a stable sort into ascending order of key
RECURSIVE SortByKey(_, _)
SortByKey(seq, key) ==
    IF seq = <<>> THEN <<>>
    ELSE InsertByKey(SortByKey(SubSeq(seq, 1, Len(seq) - 1), key), seq[Len(seq)], key)

\* edges.into_iter().filter(|&e| components.merge(endp[2e], endp[2e+1])).collect()
\* from position i of edges on: components is p, acc the edges kept, work
\* the steps done so far.  An index out of range panics.
RECURSIVE KruskalFilter(_, _, _, _, _, _)
KruskalFilter(g, edges, i, p, acc, work) ==
    IF i > Len(edges) THEN QResult(acc, TRUE, work)
    ELSE LET e == edges[i]
         IN  IF ~InRange(g.endp, 2 * e) \/ ~InRange(g.endp, 2 * e + 1)
             THEN QResult(Panic, FALSE, work)
             ELSE LET m == Merge(p, At(g.endp, 2 * e), At(g.endp, 2 * e + 1))
                  IN  IF ~m.ok THEN QResult(Panic, FALSE, Append(work, "merge"))
                      ELSE KruskalFilter(g, edges, i + 1, m.parent,
                                         IF m.ret THEN Append(acc, e) ELSE acc,
                                         Append(work, "merge"))

\* min_spanning_tree without the assertion on the length of weights
MinSpanningTreeNoAssert(g, weights) ==
    LET edges == SortByKey(Range0(Len(weights)), weights)
    IN  KruskalFilter(g, edges, 1, DSNew(NumV(g)), <<>>, <<"sort">>)

\* min_spanning_tree that takes the heaviest edges first
MinSpanningTreeDescending(g, weights) ==
    IF NumE(g) # 2 * Len(weights) THEN QResult(AssertFailed, FALSE, <<>>)
    ELSE LET edges == SortDescending(Range0(Len(weights)), weights)
         IN  KruskalFilter(g, edges, 1, DSNew(NumV(g)), <<>>, <<"sort">>)

\* Graph::min_spanning_tree(weights)
MinSpanningTree(g, weights) ==
    IF NumE(g) # 2 * Len(weights) THEN QResult(AssertFailed, FALSE, <<>>)
    ELSE LET edges == SortByKey(Range0(Len(weights)), weights)
         IN  KruskalFilter(g, edges, 1, DSNew(NumV(g)), <<>>, <<"sort">>)

GMinSpanningTree(weights) ==
    QueryCall("min_spanning_tree", 0, weights, MinSpanningTree(Graph, weights))

\* The weights slices of length n a caller may pass: every weight from 1 to
\* MstMaxW
WeightsOfLen(n) == [1..n -> 1..MstMaxW]

\* every length up to MstMaxK
WeightArgs == UNION {WeightsOfLen(n) : n \in 0..MstMaxK}

InitMST == \E vmax \in 0..MstMaxV : GraphInit(vmax)

\* Graphs built only by add_undirected_edge, and weights slices with one
\* weight for each undirected edge.  The caller builds, queries, and builds
\* on: min_spanning_tree takes &self and leaves the graph as it was, so a
\* query made right after another reaches only the states it reaches when
\* made first.
NextMST ==
    \/ \E u \in Vertices, v \in Vertices :
          Len(endp) + 2 <= 2 * MstMaxK /\ GAddUndirectedEdge(u, v)
    \/ \E weights \in WeightsOfLen(Len(endp) \div 2) :
          gCall.op # "min_spanning_tree" /\ GMinSpanningTree(weights)

SpecMST == InitMST /\ [][NextMST]_vars

InitAny == \E vmax \in 0..AnyMaxV : GraphInit(vmax)

\* graphs built by add_edge and add_undirected_edge in any order, and
\* weights slices of any length
NextAny ==
    \/ \E u \in Vertices, v \in Vertices :
          Len(endp) + 1 <= AnyMaxE /\ GAddEdge(u, v)
    \/ \E u \in Vertices, v \in Vertices :
          Len(endp) + 2 <= AnyMaxE /\ GAddUndirectedEdge(u, v)
    \/ \E weights \in WeightArgs : GMinSpanningTree(weights)

SpecAny == InitAny /\ [][NextAny]_vars

\* ---------------------------------------------------------------- DisjointSets claims
Elems(p) == 0..(Len(p) - 1)

\* The representative of u in p: the self-parent that repeated parent hops
\* from u arrive at.  Nothing is written.
RECURSIVE Rep(_, _)
Rep(p, u) == IF At(p, u) = u THEN u ELSE Rep(p, At(p, u))

SameSet(p, a, b) == Rep(p, a) = Rep(p, b)

MergeReturned == dsCall.op = "merge" /\ dsCall.ok

\* C4: merge(u, v) returns true exactly when u and v were in different sets
\* just before the call, false exactly when they were in the same set; so
\* merging them again, or merging any two elements of one set, returns false.
C4_MergeReturn ==
    /\ MergeReturned =>
          /\ dsCall.ret <=> ~SameSet(dsCall.pre, dsCall.u, dsCall.v)
          /\ ~Merge(parent, dsCall.u, dsCall.v).ret
    /\ \A a \in Elems(parent), b \in Elems(parent) :
          Merge(parent, a, b).ret <=> ~SameSet(parent, a, b)

\* a merge of two distinct elements that were already in one set returned false
C4_Witness ==
    /\ MergeReturned
    /\ dsCall.u # dsCall.v
    /\ SameSet(dsCall.pre, dsCall.u, dsCall.v)
    /\ dsCall.ret = FALSE

\* C5: right after merge(u, v) returns, find(u) = find(v); and no call, find
\* or merge, completed or not, separates two elements whose find results
\* were equal before it (dsCall.pre is the parent array the call started on).
C5_MergeCloses ==
    /\ MergeReturned =>
          LET fu == Find(parent, dsCall.u)
              fv == Find(fu.parent, dsCall.v)
          IN  fu.ret = fv.ret
    /\ dsCall.op # "new" =>
          \A a \in Elems(parent), b \in Elems(parent) :
              Find(dsCall.pre, a).ret = Find(dsCall.pre, b).ret
                  => Find(parent, a).ret = Find(parent, b).ret

\* a merge that returned true, joining two sets of which one had already
\* been built by an earlier merge
C5_Witness ==
    /\ MergeReturned
    /\ dsCall.ret = TRUE
    /\ \E a \in Elems(parent) :
          /\ a \notin {dsCall.u, dsCall.v}
          /\ SameSet(dsCall.pre, a, dsCall.u)
          /\ SameSet(parent, a, dsCall.v)

\* C6: find(find(u)) = find(u); the value find returns is its own parent,
\* and a second find(u) returns the same value.
C6_FindIdempotent ==
    \A u \in Elems(parent) :
        LET f1 == Find(parent, u)
            f2 == Find(f1.parent, f1.ret)
            f3 == Find(f1.parent, u)
        IN  /\ f2.ret = f1.ret
            /\ At(f1.parent, f1.ret) = f1.ret
            /\ f3.ret = f1.ret

\* find returned a root two parent hops away from its argument
C6_Witness ==
    /\ dsCall.op = "find" /\ dsCall.ok
    /\ At(dsCall.pre, dsCall.u) # dsCall.u
    /\ At(dsCall.pre, At(dsCall.pre, dsCall.u)) # At(dsCall.pre, dsCall.u)
    /\ dsCall.ret = Rep(dsCall.pre, dsCall.u)

\* The self-parent reached from u in at most n parent hops, or -1 when a hop
\* leaves the array or no self-parent is reached.
RECURSIVE Walk(_, _, _)
Walk(p, u, n) ==
    IF ~InRange(p, u) THEN -1
    ELSE IF At(p, u) = u THEN u
    ELSE IF n = 0 THEN -1
    ELSE Walk(p, At(p, u), n - 1)

RootOf(p, u) == Walk(p, u, Len(p))

\* the elements on the parent path from u to its root, both included
RECURSIVE PathSet(_, _, _)
PathSet(p, u, n) ==
    IF ~InRange(p, u) THEN {}
    ELSE IF At(p, u) = u \/ n = 0 THEN {u}
    ELSE {u} \cup PathSet(p, At(p, u), n - 1)

PathOf(p, u) == PathSet(p, u, Len(p))

\* C13: the parent array is a forest: every parent is an element, and from
\* every element parent hops reach a self-parent, so the only cycles are the
\* self-loops at roots; and find returns for every element.
C13_Forest ==
    \A u \in Elems(parent) :
        /\ At(parent, u) \in Elems(parent)
        /\ RootOf(parent, u) # -1
        /\ Find(parent, u).ok

\* a tree three parent hops deep
C13_Witness ==
    \E u \in Elems(parent) :
        LET a == At(parent, u)
            b == At(parent, a)
            c == At(parent, b)
        IN  a # u /\ b # a /\ c # b /\ At(parent, c) = c

\* C15: a merge(u, v) of two different sets makes the old root of v's set the
\* parent of the old root of u's set and the representative of every element
\* of either set, whichever set is larger; the other sets keep theirs.
C15_AttachUnderV ==
    (MergeReturned /\ dsCall.ret = TRUE) =>
        LET ru == RootOf(dsCall.pre, dsCall.u)
            rv == RootOf(dsCall.pre, dsCall.v)
        IN  /\ ru # rv
            /\ At(parent, ru) = rv
            /\ At(parent, rv) = rv
            /\ \A x \in Elems(parent) :
                  IF RootOf(dsCall.pre, x) \in {ru, rv}
                  THEN RootOf(parent, x) = rv /\ Find(parent, x).ret = rv
                  ELSE RootOf(parent, x) = RootOf(dsCall.pre, x)

\* a set of two elements was merged into a set of one: the single element
\* is the new representative
C15_Witness ==
    /\ MergeReturned /\ dsCall.ret = TRUE
    /\ Cardinality({x \in Elems(parent) :
                       RootOf(dsCall.pre, x) = RootOf(dsCall.pre, dsCall.u)}) = 2
    /\ Cardinality({x \in Elems(parent) :
                       RootOf(dsCall.pre, x) = RootOf(dsCall.pre, dsCall.v)}) = 1
    /\ RootOf(parent, dsCall.u) = dsCall.v

FindReturned == dsCall.op = "find" /\ dsCall.ok

\* C16: after find(u) returns r, r is the root u had, every element that was
\* on the parent path from u to r has parent r, and every other element has
\* the parent it had.
C16_PathCompression ==
    FindReturned =>
        LET r == dsCall.ret
            path == PathOf(dsCall.pre, dsCall.u)
        IN  /\ r = RootOf(dsCall.pre, dsCall.u)
            /\ Len(parent) = Len(dsCall.pre)
            /\ \A x \in Elems(parent) :
                  IF x \in path
                  THEN At(parent, x) = r
                  ELSE At(parent, x) = At(dsCall.pre, x)

\* find(u) re-parented u and two elements above it on a path of three hops,
\* and left alone an element that was not on the path
C16_Witness ==
    /\ FindReturned
    /\ Cardinality(PathOf(dsCall.pre, dsCall.u)) = 4
    /\ \A x \in PathOf(dsCall.pre, dsCall.u) : At(parent, x) = dsCall.ret
    /\ parent # dsCall.pre

\* C17: find(u) changes no element's representative, and neither does a
\* merge(u, v) that returns false.
C17_QueryKeepsPartition ==
    (FindReturned \/ (MergeReturned /\ dsCall.ret = FALSE)) =>
        \A x \in Elems(parent) :
            /\ RootOf(dsCall.pre, x) # -1
            /\ RootOf(parent, x) = RootOf(dsCall.pre, x)

\* a merge of two different elements of one set returned false and wrote
\* to the parent array
C17_Witness ==
    /\ MergeReturned /\ dsCall.ret = FALSE
    /\ dsCall.u # dsCall.v
    /\ parent # dsCall.pre

\* the elements of the set of u in the parent array p
SetOf(p, u) == {x \in Elems(p) : RootOf(p, x) = RootOf(p, u)}

\* C19: find(a) = find(b) exactly when a and b are related by the closure of
\* the pairs passed to merge so far; a merge joins the sets of its two
\* arguments and nothing else, and no call splits a set.
C19_RefinesPartition ==
    /\ Len(rel) = Len(parent)
    /\ \A a \in Elems(parent), b \in Elems(parent) :
          LET fa == Find(parent, a)
              fb == Find(fa.parent, b)
          IN  (fa.ret = fb.ret) <=> (At(rel, a) = At(rel, b))
    /\ dsCall.op \in {"find", "merge"} =>
          \A a \in Elems(parent), b \in Elems(parent) :
              (RootOf(parent, a) = RootOf(parent, b)) <=>
                  \/ RootOf(dsCall.pre, a) = RootOf(dsCall.pre, b)
                  \/ /\ MergeReturned
                     /\ {a, b} \subseteq SetOf(dsCall.pre, dsCall.u)
                                            \cup SetOf(dsCall.pre, dsCall.v)

\* after merges and a find, a set of three elements beside a set of one
C19_Witness ==
    /\ FindReturned
    /\ Len(parent) = 4
    /\ \E a \in Elems(parent) :
          /\ Cardinality({x \in Elems(parent) : At(rel, x) = At(rel, a)}) = 3
          /\ Cardinality(SetOf(parent, a)) = 3

\* ---------------------------------------------------------------- Graph claims
SeqSet(seq) == {seq[i] : i \in 1..Len(seq)}

EdgeIds == 0..(Len(endp) - 1)

\* the source of edge e: the first argument of the add_edge call that appended it
Src(e) == At(log, e).u

\* the run has not panicked
Live == gCall.ok

\* edge e and the edge at e ^ 1 are each other's reverse
ReverseAtXor1(e) ==
    /\ Xor1(e) # e
    /\ InRange(endp, Xor1(e))
    /\ At(endp, Xor1(e)) = Src(e)

\* C7 as stated: for every edge e added by add_undirected_edge, endp[e^1] is
\* the source of e and e^1 # e.
C7_AsStated ==
    Live => \A e \in EdgeIds :
                At(log, e).by = "add_undirected_edge" => ReverseAtXor1(e)

\* C7: for every edge e added by an add_undirected_edge call that was made
\* when num_e() was even, endp[e^1] is the source of e and e^1 # e.
C7_ReverseEdge ==
    Live => \A e \in EdgeIds :
                (At(log, e).by = "add_undirected_edge" /\ At(log, e).base % 2 = 0)
                    => ReverseAtXor1(e)

\* an undirected edge between two different vertices, added to a graph that
\* already had two edges
C7_Witness ==
    /\ Live
    /\ \E e \in EdgeIds :
          /\ At(log, e).by = "add_undirected_edge"
          /\ At(log, e).base = 2
          /\ At(log, e).u # At(log, e).v

\* the edge indices adj_list(x) yields on graph g
OutEdges(g, x) == {item[1] : item \in {Drain(g, AdjList(g, x).it)[i] :
                                          i \in 1..Len(Drain(g, AdjList(g, x).it))}}

\* C9: an add_two_sat_clause(u, v) that returns has appended exactly two
\* edges, u^1 -> v at index num_e() and then v^1 -> u at num_e() + 1, and
\* has added or changed no other edge.
C9_TwoSatClause ==
    (gCall.op = "add_two_sat_clause" /\ gCall.ok) =>
        LET n == NumE(gCall.pre)
            u == gCall.u
            v == gCall.v
        IN  /\ NumE(Graph) = n + 2
            /\ endp = gCall.pre.endp \o <<v, u>>
            /\ \A x \in Vertices :
                  OutEdges(Graph, x) =
                      OutEdges(gCall.pre, x)
                          \cup (IF x = Xor1(u) THEN {n} ELSE {})
                          \cup (IF x = Xor1(v) THEN {n + 1} ELSE {})

\* a clause of two different literals added to a graph that has edges
C9_Witness ==
    /\ gCall.op = "add_two_sat_clause" /\ gCall.ok
    /\ gCall.u # gCall.v
    /\ NumE(gCall.pre) > 0
    /\ NumE(Graph) = NumE(gCall.pre) + 2

\* C8: for every vertex u, adj_list(u) yields, newest first, exactly the edges
\* whose source is u, each once, each with its destination endp[e]; and an
\* iterator yields that whole sequence however far any other iterator of the
\* same graph has been advanced.
C8_AdjList ==
    Live =>
      /\ \A u \in Vertices :
            LET items == Drain(Graph, AdjList(Graph, u).it)
            IN  /\ AdjList(Graph, u).ok
                /\ {items[i][1] : i \in 1..Len(items)} = {e \in EdgeIds : Src(e) = u}
                /\ \A i \in 1..Len(items) : items[i][2] = At(endp, items[i][1])
                /\ \A i \in 1..(Len(items) - 1) : items[i][1] > items[i + 1][1]
      /\ \A s \in DOMAIN iters :
            IsSome(iters[s]) =>
                LET h == Unwrap(iters[s])
                IN  /\ h.out \o Drain(Graph, h.it) = Drain(Graph, AdjList(Graph, h.u).it)
                    /\ h.done => ~IsSome(h.it.next_e)

\* two iterators over the same vertex: one has yielded two edges and then
\* None, the other was made later and has yielded nothing yet
C8_Witness ==
    /\ IsSome(iters["a"]) /\ IsSome(iters["b"])
    /\ Unwrap(iters["a"]).u = Unwrap(iters["b"]).u
    /\ Len(Unwrap(iters["a"]).out) = 2
    /\ Unwrap(iters["a"]).done
    /\ Unwrap(iters["b"]).out = <<>>

\* C18: a successful add_edge(u, v) appends one edge at index num_e(), with
\* endp[new] = v, next[new] = the old first[u] and first[u] = new, and leaves
\* every other entry and num_v() as they were; next and endp always have the
\* same length, and every first or next entry that is not None is less than
\* num_e().
C18_AppendOnly ==
    /\ (gCall.op = "add_edge" /\ gCall.ok) =>
          LET n == NumE(gCall.pre)
          IN  /\ NumE(Graph) = n + 1
              /\ NumV(Graph) = NumV(gCall.pre)
              /\ At(endp, n) = gCall.v
              /\ At(next, n) = At(gCall.pre.first, gCall.u)
              /\ At(first, gCall.u) = Some(n)
              /\ \A w \in Vertices \ {gCall.u} : At(first, w) = At(gCall.pre.first, w)
              /\ \A e \in 0..(n - 1) :
                    /\ At(endp, e) = At(gCall.pre.endp, e)
                    /\ At(next, e) = At(gCall.pre.next, e)
    /\ Len(next) = Len(endp)
    /\ \A w \in Vertices : IsSome(At(first, w)) => Unwrap(At(first, w)) \in EdgeIds
    /\ \A e \in EdgeIds : IsSome(At(next, e)) => Unwrap(At(next, e)) \in EdgeIds

\* add_edge(u, v) returned on a graph in which u and another vertex already
\* had edges
C18_Witness ==
    /\ gCall.op = "add_edge" /\ gCall.ok
    /\ IsSome(At(gCall.pre.first, gCall.u))
    /\ \E w \in Vertices \ {gCall.u} : IsSome(At(first, w))
    /\ At(next, NumE(gCall.pre)) = At(gCall.pre.first, gCall.u)

\* find(u) fails exactly for u out of range and then leaves parent as it was
FindOutOfRange ==
    dsCall.op = "find" =>
        /\ dsCall.ok <=> InRange(dsCall.pre, dsCall.u)
        /\ ~dsCall.ok => parent = dsCall.pre

\* C12 as stated: find(u) with u >= size fails and leaves parent unchanged;
\* add_edge(u, v) with u or v not less than num_v() fails and appends nothing.
C12_AsStated ==
    /\ FindOutOfRange
    /\ (/\ gCall.op = "add_edge"
        /\ \/ ~InRange(gCall.pre.first, gCall.u)
           \/ ~InRange(gCall.pre.first, gCall.v)) =>
          /\ ~gCall.ok
          /\ Graph = gCall.pre

\* C12: find(u) with u >= size fails and leaves parent unchanged; add_edge(u,
\* v) fails exactly when u is not less than num_v(), whatever v is, and then
\* appends nothing.
C12_OutOfRange ==
    /\ FindOutOfRange
    /\ gCall.op = "add_edge" =>
          /\ gCall.ok <=> InRange(gCall.pre.first, gCall.u)
          /\ ~gCall.ok => Graph = gCall.pre

\* add_edge failed on a graph that has an edge whose destination is not a vertex
C12_Witness ==
    /\ gCall.op = "add_edge" /\ ~gCall.ok
    /\ \E e \in EdgeIds : ~InRange(first, At(endp, e))

\* ---------------------------------------------------------------- Euler path claims
OutDeg(x) == Cardinality({e \in EdgeIds : Src(e) = x})
InDeg(x) == Cardinality({e \in EdgeIds : At(endp, e) = x})

\* the vertices that directed edges lead to from the set seen
RECURSIVE ReachableFrom(_)
ReachableFrom(seen) ==
    LET more == seen \cup {At(endp, e) : e \in {d \in EdgeIds : Src(d) \in seen}}
    IN  IF more = seen THEN seen ELSE ReachableFrom(more)

\* the Eulerian precondition for start vertex u
Eulerian(u) ==
    /\ \A e \in EdgeIds : At(endp, e) \in Vertices
    /\ \/ \A x \in Vertices : InDeg(x) = OutDeg(x)
       \/ \E t \in Vertices \ {u} :
             /\ OutDeg(u) = InDeg(u) + 1
             /\ InDeg(t) = OutDeg(t) + 1
             /\ \A x \in Vertices \ {u, t} : InDeg(x) = OutDeg(x)
    /\ \A e \in EdgeIds : Src(e) \in ReachableFrom({u})

\* path is an Euler path from u: every edge index once, chained, starting at u
IsEulerPathFrom(path, u) ==
    /\ Len(path) = Len(endp)
    /\ {path[i] : i \in 1..Len(path)} = EdgeIds
    /\ \A i \in 1..(Len(path) - 1) : At(endp, path[i]) = Src(path[i + 1])
    /\ Len(path) > 0 => Src(path[1]) = u

\* the graph of test_euler, built by its four add_edge calls
TestEulerGraph ==
    AddEdge(AddEdge(AddEdge(AddEdge(GraphNew(3), 0, 1).g, 1, 0).g, 1, 2).g, 2, 1).g

\* C1: on a graph that meets the Eulerian precondition for u, euler_path(u)
\* returns every edge index exactly once, each edge ending where the next
\* starts, the first starting at u; on the graph of test_euler,
\* euler_path(0) = [0, 2, 3, 1].
C1_EulerPath ==
    /\ (gCall.op = "euler_path" /\ Eulerian(gCall.u)) =>
          /\ gCall.ok
          /\ IsEulerPathFrom(gCall.ret, gCall.u)
    /\ EulerPath(TestEulerGraph, 0) = QResult(<<0, 2, 3, 1>>, TRUE, <<>>)

\* euler_path returned on an Eulerian graph in which the first walk from u
\* comes back to u before every edge is used: u's newest edge enters a cycle
\* whose other edges are older
C1_Witness ==
    /\ gCall.op = "euler_path" /\ gCall.ok
    /\ Eulerian(gCall.u)
    /\ Len(endp) = 3
    /\ gCall.ret = <<1, 0, 2>>

\* C14: on every graph, Eulerian or not, euler_path(u) returns, and what it
\* returns holds edge indices of the graph, none of them twice, so at most
\* num_e() of them.
C14_EulerTerminates ==
    gCall.op = "euler_path" =>
        /\ gCall.ok
        /\ SeqSet(gCall.ret) \subseteq EdgeIds
        /\ Cardinality(SeqSet(gCall.ret)) = Len(gCall.ret)
        /\ Len(gCall.ret) <= NumE(Graph)

\* euler_path returned two of the three edges of a graph that is not
\* Eulerian and in which a vertex is entered a second time
C14_Witness ==
    /\ gCall.op = "euler_path" /\ gCall.ok
    /\ ~Eulerian(gCall.u)
    /\ NumE(Graph) = 3
    /\ Len(gCall.ret) = 2
    /\ At(endp, gCall.ret[1]) = At(endp, gCall.ret[2])

\* ---------------------------------------------------------------- Minimum spanning tree claims
\* the logical (undirected) edges of graph g and the two ends of edge k
LogicalEdges(g) == 0..((NumE(g) \div 2) - 1)
Ends(g, k) == {At(g.endp, 2 * k), At(g.endp, 2 * k + 1)}

\* the vertices joined to the set seen by the logical edges in T
RECURSIVE Joined(_, _, _)
Joined(g, T, seen) ==
    LET more == seen \cup UNION {Ends(g, k) : k \in {j \in T : Ends(g, j) \cap seen # {}}}
    IN  IF more = seen THEN seen ELSE Joined(g, T, more)

\* the connected components of the vertices under the edges in T
Components(g, T) == {Joined(g, T, {x}) : x \in 0..(NumV(g) - 1)}

\* T has no cycle: each of its edges joins two components of the others
Acyclic(g, T) == Cardinality(T) = NumV(g) - Cardinality(Components(g, T))

\* T is a spanning forest of g, whose components are comps (a spanning tree
\* when g is connected)
SpanningForest(g, T, comps) ==
    /\ T \subseteq LogicalEdges(g)
    /\ Acyclic(g, T)
    /\ Components(g, T) = comps

Connected(g) == Cardinality(Components(g, LogicalEdges(g))) = 1

RECURSIVE WeightSum(_, _)
WeightSum(T, weights) ==
    IF T = {} THEN 0
    ELSE LET k == CHOOSE j \in T : TRUE
         IN  weights[k + 1] + WeightSum(T \ {k}, weights)

\* every edge was added by add_undirected_edge
OnlyUndirected == \A e \in EdgeIds : At(log, e).by = "add_undirected_edge"

\* min_spanning_tree was called with as many weights as undirected edges
MstCalled == gCall.op = "min_spanning_tree" /\ NumE(Graph) = 2 * Len(gCall.w)

\* the graph of test_min_spanning_tree, built by its three add_undirected_edge calls
TestMstGraph ==
    AddUndirectedEdge(AddUndirectedEdge(AddUndirectedEdge(GraphNew(3), 0, 1).g, 1, 2).g, 2, 0).g

\* C2: on a connected graph built only by add_undirected_edge, with one
\* weight per undirected edge, min_spanning_tree returns num_v() - 1 edges
\* that form a spanning tree, of weight sum no greater than that of any
\* spanning tree; on the triangle of test_min_spanning_tree with weights
\* [7, 3, 5] it returns [1, 2].
C2_MinSpanningTree ==
    /\ (MstCalled /\ OnlyUndirected /\ Connected(Graph)) =>
          /\ gCall.ok
          /\ LET R == SeqSet(gCall.ret)
                 sumR == WeightSum(R, gCall.w)
                 comps == Components(Graph, LogicalEdges(Graph))
             IN  /\ Len(gCall.ret) = NumV(Graph) - 1
                 /\ Cardinality(R) = NumV(Graph) - 1
                 /\ SpanningForest(Graph, R, comps)
                 /\ Cardinality(Components(Graph, R)) = 1
                 /\ \A T \in SUBSET LogicalEdges(Graph) :
                       (SpanningForest(Graph, T, comps) /\ T # R) =>
                           sumR <= WeightSum(T, gCall.w)
    /\ MinSpanningTree(TestMstGraph, <<7, 3, 5>>).ret = <<1, 2>>

\* min_spanning_tree returned the lighter of two parallel edges between two
\* different vertices, the one added second
C2_Witness ==
    /\ MstCalled /\ gCall.ok
    /\ OnlyUndirected /\ Connected(Graph)
    /\ NumE(Graph) = 4
    /\ Ends(Graph, 0) = Ends(Graph, 1)
    /\ Cardinality(Ends(Graph, 0)) = 2
    /\ gCall.w[2] < gCall.w[1]
    /\ gCall.ret = <<1>>

\* C3: on any graph built only by add_undirected_edge, connected or not,
\* with one weight per undirected edge, min_spanning_tree completes and
\* returns an acyclic set of num_v() minus the number of connected components
\* edges, of minimum total weight among the spanning forests.
C3_SpanningForest ==
    (MstCalled /\ OnlyUndirected) =>
        /\ gCall.ok
        /\ LET R == SeqSet(gCall.ret)
               sumR == WeightSum(R, gCall.w)
               comps == Components(Graph, LogicalEdges(Graph))
           IN  /\ Cardinality(R) = Len(gCall.ret)
               /\ R \subseteq LogicalEdges(Graph)
               /\ Acyclic(Graph, R)
               /\ Len(gCall.ret) = NumV(Graph) - Cardinality(comps)
               /\ \A T \in SUBSET LogicalEdges(Graph) :
                     SpanningForest(Graph, T, comps) => sumR <= WeightSum(T, gCall.w)

\* min_spanning_tree returned one edge on a graph that is not connected and
\* has a self-loop and an edge between two vertices
C3_Witness ==
    /\ MstCalled /\ gCall.ok
    /\ OnlyUndirected
    /\ ~Connected(Graph)
    /\ \E k \in LogicalEdges(Graph) : Cardinality(Ends(Graph, k)) = 1
    /\ Len(gCall.ret) = 1

\* C10: min_spanning_tree(weights) with num_e() # 2 * weights.len() fails on
\* its assertion: it returns nothing, has sorted and merged nothing, and the
\* graph is as it was.
C10_WeightsLength ==
    (gCall.op = "min_spanning_tree" /\ NumE(gCall.pre) # 2 * Len(gCall.w)) =>
        /\ ~gCall.ok
        /\ gCall.ret = AssertFailed
        /\ gCall.work = <<>>
        /\ Graph = gCall.pre

\* the assertion failed on a graph with an odd number of edges
C10_Witness ==
    /\ gCall.op = "min_spanning_tree" /\ ~gCall.ok
    /\ NumE(Graph) = 3
    /\ Len(gCall.w) = 1

\* edge j comes before edge k in sorted-weight order: lighter, or of equal
\* weight and smaller index
Precedes(j, k, weights) ==
    \/ weights[j + 1] < weights[k + 1]
    \/ weights[j + 1] = weights[k + 1] /\ j < k

\* C11: the result of min_spanning_tree is in sorted-weight order, weights
\* non-decreasing and equal weights in index order; and edge k is in it
\* exactly when its two ends were in different components after all the
\* edges that precede k in that order were processed.
C11_SortedOrder ==
    (MstCalled /\ gCall.ok) =>
        /\ \A i \in 1..(Len(gCall.ret) - 1) :
              Precedes(gCall.ret[i], gCall.ret[i + 1], gCall.w)
        /\ \A k \in LogicalEdges(Graph) :
              k \in SeqSet(gCall.ret) <=>
                  LET before == {j \in LogicalEdges(Graph) : Precedes(j, k, gCall.w)}
                  IN  \A c \in Components(Graph, before) : ~(Ends(Graph, k) \subseteq c)

\* two edges of equal weight that join the same two vertices: the one added
\* first was returned, the other was not
C11_Witness ==
    /\ MstCalled /\ gCall.ok
    /\ NumE(Graph) = 4
    /\ Ends(Graph, 0) = Ends(Graph, 1)
    /\ Cardinality(Ends(Graph, 0)) = 2
    /\ gCall.w[1] = gCall.w[2]
    /\ gCall.ret = <<0>>
====
